---- MODULE Spec2Model ----
(***************************************************************************)
(* The search-result cache-and-retry engine of mcp-server-search:          *)
(* GoogleSearchUtility.search_google with its shelve-backed cache, modelled *)
(* from src/src/mcp_server_search/search_utility.py and server.py.          *)
(*                                                                         *)
(* Strings are TLA+ strings; Python lists are sequences; the shelf is a     *)
(* function from keys to result lists together with the state of its       *)
(* handle.  Every call keeps the list of its externally visible effects     *)
(* (identity rotations, sleeps, provider calls, store operations) in        *)
(* `trace`, in program order.                                               *)
(***************************************************************************)
EXTENDS Integers, Sequences, FiniteSets, TLC

VARIABLES
    engine,         \* which copy of GoogleSearchUtility runs
    max_retries,    \* self.max_retries
    request_delay,  \* self.request_delay
    google_cache,   \* self.google_cache: the handle and the shelf's mapping
    disk,           \* the mapping as of the last successful sync()
    writer,         \* history: for every key, the arguments of the call that stored it
    call,           \* per worker: the activation record of search_google
    prev,           \* history: summary of the call that ended last
    ncalls,         \* number of calls started so far
    limit,          \* number of calls this session makes
    fault,          \* the store operation that fails in this run, if any
    wb,             \* the shelf's writeback cache (shelve.open(..., writeback=True))
    lock,           \* holder of the advisory lock on '<cache path>.lock', 0 when free
    serve,          \* serve(): its position, the pool's _shutdown flag, the closes
    lastput         \* history: for every key, the value of the latest assignment

vars == <<engine, max_retries, request_delay, google_cache, disk, writer,
          call, prev, ncalls, limit, fault, wb, lock, serve, lastput>>

config == <<engine, max_retries, request_delay, limit, fault>>

serving == <<lock, serve, lastput>>

-----------------------------------------------------------------------------
(* Bounds of the model *)

MaxRetriesBound == 3    \* max_retries ranges over 0..MaxRetriesBound
MaxDelay == 1           \* request_delay ranges over -1..MaxDelay
MaxNum == 1             \* num_results ranges over -1..MaxNum
MaxCalls == 2           \* calls of a session
MaxSessionRetries == 1  \* max_retries ranges over 0..MaxSessionRetries in a session

Workers == {1}

PackageEngines == {"search_utility", "server"}

Queries == {"x", "x_True_1", "x_False"}

NumResults == -1 .. MaxNum

RequestDelays == -1 .. MaxDelay

CallArgs ==
    [query : Queries, num_results : NumResults,
     use_cache : BOOLEAN, include_descriptions : BOOLEAN]

-----------------------------------------------------------------------------
(* Values *)

Absent == "<absent>"

Min(a, b) == IF a < b THEN a ELSE b

Max(a, b) == IF a > b THEN a ELSE b

Hit(u, t, d) == [url |-> u, title |-> t, description |-> d]

\* What the provider can answer to search(query, num_results, safe, advanced):
\* result objects (advanced) or plain URLs.
Responses(include_descriptions) ==
    IF include_descriptions
    THEN { <<>>,
           <<Hit("a", "ta", "da")>>,
           <<Hit("a", "ta", Absent), Hit(Absent, "tc", "dc"), Hit("b", Absent, "db")>> }
    ELSE { <<>>,
           <<Hit("a", Absent, Absent)>>,
           <<Hit("a", Absent, Absent), Hit("b", Absent, Absent)>> }

\* The exceptions a provider call can raise, by what the handler looks at.
RateLimited == [has_response |-> TRUE, truthy |-> TRUE, status_code |-> 429]

HttpError == [has_response |-> TRUE, truthy |-> TRUE, status_code |-> 503]

NoResponse == [has_response |-> FALSE, truthy |-> FALSE, status_code |-> 0]

NoException == [has_response |-> FALSE, truthy |-> FALSE, status_code |-> -1]

ProviderFailures == {RateLimited, HttpError}

\* str(bool), str(int)
StrBool(b) == IF b THEN "True" ELSE "False"

DigitStr(d) ==
    CASE d = 0 -> "0" [] d = 1 -> "1" [] d = 2 -> "2" [] d = 3 -> "3"
      [] d = 4 -> "4" [] d = 5 -> "5" [] d = 6 -> "6" [] d = 7 -> "7"
      [] d = 8 -> "8" [] d = 9 -> "9"

RECURSIVE StrNat(_)
StrNat(n) == IF n < 10 THEN DigitStr(n) ELSE StrNat(n \div 10) \o DigitStr(n % 10)

StrInt(n) == IF n < 0 THEN "-" \o StrNat(-n) ELSE StrNat(n)

\* mutant: the key leaves out num_results
CacheKeyNoCount(query, include_descriptions, num_results) ==
    query \o "_" \o StrBool(include_descriptions)

\* cache_key = f"{query}_{include_descriptions}_{num_results}"
CacheKey(query, include_descriptions, num_results) ==
    query \o "_" \o StrBool(include_descriptions) \o "_" \o StrInt(num_results)

KeyOf(a) == CacheKey(a.query, a.include_descriptions, a.num_results)

\* mutant: no hit is dropped
HasUrlAlways(h) == TRUE

\* mutant: the list is returned whole
SliceAll(s, n) == s

\* search_results[:num_results]
Slice(s, n) ==
    IF n >= 0 THEN SubSeq(s, 1, Min(n, Len(s)))
    ELSE SubSeq(s, 1, Max(Len(s) + n, 0))

HasUrl(h) == h.url # Absent

NormalizedHit(h) ==
    [url |-> h.url,
     title |-> IF h.title # Absent THEN h.title ELSE "No title",
     description |-> IF h.description # Absent THEN h.description ELSE "No description"]

UrlOnly(h) == [url |-> h.url, title |-> Absent, description |-> Absent]

\* The list comprehension over the provider's answer.
Normalize(hits, include_descriptions) ==
    IF include_descriptions
    THEN LET kept == SelectSeq(hits, HasUrl)
         IN [i \in 1 .. Len(kept) |-> NormalizedHit(kept[i])]
    ELSE [i \in 1 .. Len(hits) |-> UrlOnly(hits[i])]

\* mutant: the handle is used without asking whether there is one
TruthyAlways(gc) == TRUE

\* bool(self.google_cache): None is false, and a Shelf is a MutableMapping,
\* so an open shelf is true exactly when it holds at least one entry.
Truthy(gc) == gc.handle = "open" /\ DOMAIN gc.dict # {}

\* bool() of a shelf that was closed raises ValueError (len of a closed dict).
BoolRaises(gc) == gc.handle = "closed"

\* Shelf.__getitem__: the writeback cache first, then the file's mapping.
ShelfGet(gc, cache, key) == IF key \in DOMAIN cache.cache THEN cache.cache[key] ELSE gc.dict[key]

\* What a lookup or an assignment leaves in the writeback cache.
Remember(cache, key, value) ==
    IF cache.on THEN [cache EXCEPT !.cache = (key :> value) @@ @] ELSE cache

\* hasattr(e, 'response') and e.response and e.response.status_code == 429
IsRateLimit(e) == e.has_response /\ e.truthy /\ e.status_code = 429

\* mutant: the backoff does not grow
RetryAfterFlat(delay, attempt) == delay

\* retry_after = self.request_delay * (2 ** attempt)
RetryAfter(delay, attempt) == delay * (2 ^ attempt)

-----------------------------------------------------------------------------
(* Effects, as recorded in a call's trace *)

Ev(ev, at, in, val, res) == [ev |-> ev, at |-> at, in |-> in, val |-> val, res |-> res]

NoArgs ==
    [query |-> "", num_results |-> 0, use_cache |-> FALSE, include_descriptions |-> FALSE]

IdleCall ==
    [pc |-> "idle", args |-> NoArgs, cache_key |-> "", attempt |-> 0,
     search_results |-> <<>>, hits |-> <<>>, exc |-> NoException, failures |-> 0,
     ret |-> <<>>, how |-> "", trace |-> <<>>,
     cache0 |-> [handle |-> "None", dict |-> <<>>], disk0 |-> <<>>]

NoPrev ==
    [valid |-> FALSE, args |-> NoArgs, ret |-> <<>>, how |-> "", searches |-> 0,
     key |-> "", older |-> <<>>]

\* The writeback cache after a sync: writeback on, nothing pending.
NoWriteback == [on |-> TRUE, cache |-> <<>>]

\* No serve() is running: the engine is used as a library.
NoServe ==
    [pc |-> "off", shutdown |-> FALSE, shutdowns |-> 0, crashed |-> FALSE,
     close_calls |-> 0, closes |-> 0, close_raised |-> FALSE]

Count(tr, ev) == Cardinality({i \in 1 .. Len(tr) : tr[i].ev = ev})

\* time.sleep(d): a negative length raises ValueError
SleepRes(d) == IF d < 0 THEN "ValueError" ELSE "ok"

\* return search_results[:num_results]
Finish(c, results, how) ==
    [c EXCEPT !.pc = "done", !.ret = Slice(results, c.args.num_results), !.how = how]

\* the head of `for attempt in range(self.max_retries)`; falling out of the
\* loop is `return []`
Iterate(c, a) ==
    IF a < max_retries
    THEN [c EXCEPT !.pc = "try", !.attempt = a]
    ELSE [c EXCEPT !.pc = "done", !.ret = <<>>, !.how = "exhausted"]

Raise(c, tr) == [c EXCEPT !.pc = "raised", !.trace = tr, !.how = "raised"]

-----------------------------------------------------------------------------
(* Initial states *)

Triple(a) ==
    [query |-> a.query, include_descriptions |-> a.include_descriptions,
     num_results |-> a.num_results]

\* Entries an earlier run of the same engine has left in the cache file.
StoredEntries ==
    {[by |-> Triple(a), value |-> Normalize(r, a.include_descriptions)] :
        a \in {b \in CallArgs : b.use_cache},
        r \in {<<Hit("a", "ta", "da"), Hit("b", Absent, Absent)>>}}
    \cup {[by |-> Triple(a), value |-> <<>>] :
            a \in {b \in CallArgs : b.use_cache /\ b.query = "x" /\ b.num_results = 1}}

Shelf(handle, entries) ==
    [cache |-> [handle |-> handle,
                dict |-> [k \in {KeyOf(e.by) : e \in entries} |->
                             (CHOOSE e \in entries : KeyOf(e.by) = k).value]],
     writer |-> [k \in {KeyOf(e.by) : e \in entries} |->
                    (CHOOSE e \in entries : KeyOf(e.by) = k).by],
     fault |-> "none"]

\* self.google_cache = self._open_cache(): None when shelve.open raised,
\* else the shelf with what the file holds.
OpenedStores ==
    {Shelf("None", {}), Shelf("open", {})}
    \cup {Shelf("open", {e}) : e \in StoredEntries}

\* A shelf whose backing file fails on lookup, on assignment or on sync.
FailingStores ==
    {[Shelf("open", {e}) EXCEPT !.fault = f] :
        e \in {d \in StoredEntries : d.by.query = "x" /\ d.by.num_results = 1 /\ d.value # <<>>},
        f \in {"get", "put", "sync"}}

InitWith(engines, retries, delays, stores, calls) ==
    /\ engine \in engines
    /\ max_retries \in retries
    /\ request_delay \in delays
    /\ limit = calls
    /\ \E s \in stores :
          /\ google_cache = s.cache
          /\ disk = s.cache.dict
          /\ writer = s.writer
          /\ fault = s.fault
    /\ call = [w \in Workers |-> IdleCall]
    /\ prev = NoPrev
    /\ ncalls = 0
    /\ wb = NoWriteback
    /\ lock = 0
    /\ serve = NoServe
    /\ lastput = <<>>

-----------------------------------------------------------------------------
(* search_google, step by step *)

ExcName(e) ==
    IF e = RateLimited THEN "RateLimited"
    ELSE IF e = HttpError THEN "HttpError" ELSE "NoResponse"

\* What is remembered of a call that ended: its arguments and key, what it
\* returned and how, its provider calls, and the entry its key had when it
\* began (as a sequence of at most one value).
Summary(c) ==
    [valid |-> TRUE, args |-> c.args, ret |-> c.ret, how |-> c.how,
     searches |-> Count(c.trace, "search"), key |-> c.cache_key,
     older |-> IF c.cache_key \in DOMAIN c.cache0.dict
               THEN <<c.cache0.dict[c.cache_key]>> ELSE <<>>]

\* A caller invokes search_google(query, num_results, use_cache, include_descriptions).
Begin(w) ==
    /\ call[w].pc \in {"idle", "done", "raised"}
    /\ ncalls < limit
    /\ \E a \in CallArgs :
          call' = [call EXCEPT ![w] =
                      Iterate([IdleCall EXCEPT !.args = a, !.cache_key = KeyOf(a),
                                               !.cache0 = google_cache, !.disk0 = disk], 0)]
    /\ prev' = IF call[w].pc = "idle" THEN prev ELSE Summary(call[w])
    /\ ncalls' = ncalls + 1
    /\ UNCHANGED <<config, google_cache, disk, writer, wb, serving>>

\* mutant: the store is consulted whatever use_cache says
UseCacheAlways(c) == TRUE

\* `use_cache and ...`: the head of the cache test
UseCache(c) == c.args.use_cache

\* mutant: an empty entry counts as a miss
InCacheNonEmpty(c, gc) ==
    /\ c.cache_key \in DOMAIN gc.dict /\ c.attempt = 0
    /\ gc.dict[c.cache_key] # <<>>

\* mutant: the cache answers on the first retry instead of the first attempt
InCacheOnRetry(c, gc) == c.cache_key \in DOMAIN gc.dict /\ c.attempt = 1

\* cache_key in self.google_cache and attempt == 0
InCacheFirstAttempt(c, gc) == c.cache_key \in DOMAIN gc.dict /\ c.attempt = 0

\* if use_cache and self.google_cache and cache_key in self.google_cache and attempt == 0
TryCache(w) ==
    LET c == call[w]
        closed == UseCache(c) /\ BoolRaises(google_cache)
        consult == UseCache(c) /\ Truthy(google_cache)
        hit == InCacheFirstAttempt(c, google_cache)
        served == consult /\ fault # "get" /\ hit
        entry == ShelfGet(google_cache, wb, c.cache_key)
    IN
    /\ c.pc = "try"
    /\ IF closed
       THEN call' = [call EXCEPT ![w] =
                  [c EXCEPT !.pc = "except", !.exc = NoResponse,
                            !.trace = Append(@, Ev("bool", c.attempt, "try", 0, "ValueError"))]]
       ELSE IF ~consult
       THEN call' = [call EXCEPT ![w] = [c EXCEPT !.pc = "fetch"]]
       ELSE   call' = [call EXCEPT ![w] =
                  IF fault = "get"
                  THEN [c EXCEPT !.pc = "except", !.exc = NoResponse,
                           !.trace = Append(@, Ev("contains", c.attempt, "try", 0, "error"))]
                  ELSE IF hit
                  THEN Finish([c EXCEPT
                                 !.search_results = entry,
                                 !.trace = @ \o <<Ev("contains", c.attempt, "try", 0, "ok"),
                                                  Ev("getitem", c.attempt, "try", 0, "ok")>>],
                              entry, "hit")
                  ELSE [c EXCEPT !.pc = "fetch",
                           !.trace = Append(@, Ev("contains", c.attempt, "try", 0, "ok"))]]
    /\ wb' = IF served THEN Remember(wb, c.cache_key, entry) ELSE wb
    /\ UNCHANGED <<config, google_cache, disk, writer, prev, ncalls, serving>>

\* random.random() * 2, to the second
Jitter == {0, 1}

\* mutant: the throttle sleep comes before the rotation
ThrottledThenRotated(c, res) ==
    c.trace \o <<Ev("throttle", c.attempt, "try", request_delay, res),
                 Ev("rotate", c.attempt, "try", 0, "ok")>>

\* The call's effects up to the provider call: the user agent is replaced,
\* then time.sleep(self.request_delay + jitter) returns or raises.
Throttled(c, res) ==
    c.trace \o <<Ev("rotate", c.attempt, "try", 0, "ok"),
                 Ev("throttle", c.attempt, "try", request_delay, res)>>

\* google_user_agents.user_agents = [self.ua.random];
\* time.sleep(self.request_delay + random.random() * 2); search(...); the comprehension
Fetch(w) ==
    LET c == call[w]
        slept(res) == Throttled(c, res)
    IN
    /\ c.pc = "fetch"
    /\ \E j \in Jitter :
         IF request_delay + j < 0
         THEN call' = [call EXCEPT ![w] =
                  [c EXCEPT !.pc = "except", !.exc = NoResponse,
                            !.trace = slept("ValueError")]]
         ELSE \/ \E e \in ProviderFailures :
                   call' = [call EXCEPT ![w] =
                      [c EXCEPT !.pc = "except", !.exc = e,
                                !.trace = Append(slept("ok"),
                                     Ev("search", c.attempt, "try", 0, ExcName(e)))]]
              \/ \E r \in Responses(c.args.include_descriptions) :
                   call' = [call EXCEPT ![w] =
                      [c EXCEPT !.pc = "persist", !.hits = r,
                                !.search_results = Normalize(r, c.args.include_descriptions),
                                !.trace = Append(slept("ok"),
                                     Ev("search", c.attempt, "try", 0, "ok"))]]
    /\ UNCHANGED <<config, google_cache, disk, writer, prev, ncalls, wb, serving>>

\* if self.google_cache: self.google_cache[cache_key] = search_results
Persist(w) ==
    LET c == call[w] IN
    /\ c.pc = "persist"
    /\ IF BoolRaises(google_cache)
       THEN /\ call' = [call EXCEPT ![w] =
                  [c EXCEPT !.pc = "except", !.exc = NoResponse,
                            !.trace = Append(@, Ev("bool", c.attempt, "try", 0, "ValueError"))]]
            /\ UNCHANGED <<google_cache, writer, wb>>
       ELSE IF ~Truthy(google_cache)
       THEN /\ call' = [call EXCEPT ![w] = Finish(c, c.search_results, "fetched")]
            /\ UNCHANGED <<google_cache, writer, wb>>
       ELSE IF fault # "put"
       THEN /\ google_cache' = [google_cache EXCEPT
                                   !.dict = (c.cache_key :> c.search_results) @@ @]
            /\ wb' = Remember(wb, c.cache_key, c.search_results)
            /\ writer' = (c.cache_key :> Triple(c.args)) @@ writer
            /\ call' = [call EXCEPT ![w] =
                  [c EXCEPT !.pc = "save",
                            !.trace = Append(@, Ev("setitem", c.attempt, "try", 0, "ok"))]]
       ELSE /\ call' = [call EXCEPT ![w] =
                  [c EXCEPT !.pc = "except", !.exc = NoResponse,
                            !.trace = Append(@, Ev("setitem", c.attempt, "try", 0, "error"))]]
            /\ UNCHANGED <<google_cache, writer, wb>>
    /\ lastput' = IF Truthy(google_cache) /\ fault # "put"
                   THEN (c.cache_key :> c.search_results) @@ lastput ELSE lastput
    /\ UNCHANGED <<config, disk, prev, ncalls, lock, serve>>

\* self._save_cache(), then return search_results[:num_results]
Save(w) ==
    LET c == call[w]
        done(res) ==
            Finish([c EXCEPT !.trace = Append(@, Ev("sync", c.attempt, "try", 0, res))],
                   c.search_results, "fetched")
    IN
    /\ c.pc = "save"
    /\ IF fault # "sync"
       THEN /\ disk' = google_cache.dict
            /\ call' = [call EXCEPT ![w] = done("ok")]
       ELSE /\ call' = [call EXCEPT ![w] = done("error")]
            /\ UNCHANGED disk
    /\ wb' = NoWriteback
    /\ UNCHANGED <<config, google_cache, writer, prev, ncalls, serving>>

\* mutant: the handler waits without rotating the user agent
WaitWithoutRotating(c) ==
    LET tr == Append(c.trace, Ev("delay", c.attempt, "except", request_delay,
                                 SleepRes(request_delay)))
    IN IF request_delay < 0 THEN Raise(c, tr)
       ELSE Iterate([c EXCEPT !.trace = tr], c.attempt + 1)

\* The flat wait of the handler: rotate the user agent, time.sleep(self.request_delay).
RotateAndWait(c) ==
    LET tr == c.trace \o <<Ev("rotate", c.attempt, "except", 0, "ok"),
                           Ev("delay", c.attempt, "except", request_delay,
                              SleepRes(request_delay))>>
    IN IF request_delay < 0 THEN Raise(c, tr)
       ELSE Iterate([c EXCEPT !.trace = tr], c.attempt + 1)

\* mutant: a rate-limit failure is handled like any other failure
BackOffRotating(c) == RotateAndWait(c)

\* The 429 branch: time.sleep(self.request_delay * (2 ** attempt)).
BackOff(c) ==
    LET d == RetryAfter(request_delay, c.attempt)
        tr == Append(c.trace, Ev("backoff", c.attempt, "except", d, SleepRes(d)))
    IN IF d < 0 THEN Raise(c, tr)
       ELSE Iterate([c EXCEPT !.trace = tr], c.attempt + 1)

\* except Exception as e: of search_utility.py (lines 125-139)
HandleUtility(c) ==
    IF IsRateLimit(c.exc) THEN BackOff(c)
    ELSE IF c.attempt < max_retries - 1 THEN RotateAndWait(c)
    ELSE [c EXCEPT !.pc = "done", !.ret = <<>>, !.how = "exhausted"]

\* mutant: a failed attempt goes on to store what it has
PersistAfterFailure(c) == [c EXCEPT !.pc = "persist"]

\* except Exception as e: of server.py (lines 117-125)
HandleServer(c) ==
    IF IsRateLimit(c.exc) THEN BackOff(c) ELSE RotateAndWait(c)

Except(w) ==
    /\ call[w].pc = "except"
    /\ call' = [call EXCEPT ![w] =
                  LET c == [call[w] EXCEPT !.failures = @ + 1] IN
                  IF engine = "search_utility" THEN HandleUtility(c) ELSE HandleServer(c)]
    /\ UNCHANGED <<config, google_cache, disk, writer, prev, ncalls, wb, serving>>

Next ==
    \E w \in Workers :
        \/ Begin(w)
        \/ TryCache(w)
        \/ Fetch(w)
        \/ Persist(w)
        \/ Save(w)
        \/ Except(w)

Init ==
    InitWith(PackageEngines, 0 .. MaxRetriesBound, RequestDelays,
             OpenedStores \cup FailingStores, 1)

Spec == Init /\ [][Next]_vars

\* Two calls in a row on a store that opened and does not fail.
InitSession ==
    InitWith(PackageEngines, 0 .. MaxSessionRetries, 0 .. MaxDelay,
             {s \in OpenedStores :
                 /\ s.cache.handle = "open"
                 /\ \A k \in DOMAIN s.writer :
                       s.writer[k].query = "x" /\ s.writer[k].num_results = 1},
             MaxCalls)

SpecSession == InitSession /\ [][Next]_vars

\* One call, whose arguments range over all of CallArgs, on the stores that
\* hold nothing or one entry written for ("x", 1): the retry loop, attempt by
\* attempt, does not depend on which other key an entry is stored under.
AttemptStores ==
    {s \in OpenedStores \cup FailingStores :
        \A k \in DOMAIN s.writer :
            s.writer[k].query = "x" /\ s.writer[k].num_results = 1}

InitAttempts ==
    InitWith(PackageEngines, 0 .. MaxRetriesBound, RequestDelays, AttemptStores, 1)

SpecAttempts == InitAttempts /\ [][Next]_vars

-----------------------------------------------------------------------------
(* server.py: searches on pool workers, the advisory lock, shutdown *)

MaxPoolRetries == 1     \* max_retries ranges over 1..MaxPoolRetries under the pool

\* Two of the pool's threads (ThreadPoolExecutor(max_workers=4)).
PoolWorkers == {1, 2}

\* What call_tool hands to run_search_in_thread (SearchParams: num_results >= 1).
PoolArgs ==
    {a \in CallArgs : a.query = "x" /\ a.num_results = 1 /\ ~a.include_descriptions}

OtherEntry ==
    [by |-> [query |-> "x_True_1", include_descriptions |-> FALSE, num_results |-> 1],
     value |-> <<UrlOnly(Hit("b", Absent, Absent))>>]

PoolEntry ==
    [by |-> [query |-> "x", include_descriptions |-> FALSE, num_results |-> 1],
     value |-> <<UrlOnly(Hit("b", Absent, Absent)), UrlOnly(Hit("a", Absent, Absent))>>]

PoolStores ==
    {Shelf("None", {}), Shelf("open", {}), Shelf("open", {OtherEntry}),
     Shelf("open", {PoolEntry}), [Shelf("open", {OtherEntry}) EXCEPT !.fault = "sync"]}

\* loop.run_in_executor(_executor, lambda: search_util.search_google(...))
Submit(w) ==
    /\ serve.pc = "running"
    /\ call[w].pc = "idle"
    /\ ncalls < limit
    /\ \E a \in PoolArgs :
          call' = [call EXCEPT ![w] =
                      Iterate([IdleCall EXCEPT !.args = a, !.cache_key = KeyOf(a),
                                               !.cache0 = google_cache, !.disk0 = disk], 0)]
    /\ ncalls' = ncalls + 1
    /\ UNCHANGED <<config, google_cache, disk, writer, prev, wb, serving>>

\* mutant: the lock is taken whoever holds it
LockIsFreeAlways(holder) == TRUE

\* portalocker.Lock(lock_file, 'w').acquire(): an exclusive, non-blocking
\* flock on a descriptor of its own, retried until the timeout
LockIsFree(holder) == holder = 0

\* with portalocker.Lock(lock_file, 'w'): entered; Shelf.sync() starts by
\* switching writeback off while it writes the cached entries back
Acquire(w) ==
    /\ call[w].pc = "save"
    /\ LockIsFree(lock)
    /\ lock' = w
    /\ wb' = [wb EXCEPT !.on = FALSE]
    /\ call' = [call EXCEPT ![w] = [call[w] EXCEPT !.pc = "sync"]]
    /\ UNCHANGED <<config, google_cache, disk, writer, prev, ncalls, serve, lastput>>

\* The lock is held elsewhere until the timeout: LockException, caught by
\* _save_cache's except; return search_results[:num_results].
LockTimeout(w) ==
    LET c == call[w] IN
    /\ c.pc = "save"
    /\ ~LockIsFree(lock)
    /\ call' = [call EXCEPT ![w] =
          Finish([c EXCEPT !.trace = Append(@, Ev("sync", c.attempt, "try", 0, "locked"))],
                 c.search_results, "fetched")]
    /\ UNCHANGED <<config, google_cache, disk, writer, prev, ncalls, wb, serving>>

\* self.google_cache.sync() ends (the cached entries are written back over
\* the file's mapping, the writeback cache is emptied, the file is synced),
\* the with block releases the lock; return search_results[:num_results].
Sync(w) ==
    LET c == call[w]
        closed == BoolRaises(google_cache)
        written == wb.cache @@ google_cache.dict
        done(res) ==
            Finish([c EXCEPT !.trace = Append(@, Ev("sync", c.attempt, "try", 0, res))],
                   c.search_results, "fetched")
    IN
    /\ c.pc = "sync"
    /\ IF closed
       THEN /\ call' = [call EXCEPT ![w] = done("ValueError")]
            /\ UNCHANGED <<google_cache, disk, wb>>
       ELSE /\ google_cache' = [google_cache EXCEPT !.dict = written]
            /\ wb' = NoWriteback
            /\ IF fault = "sync"
               THEN call' = [call EXCEPT ![w] = done("error")] /\ UNCHANGED disk
               ELSE call' = [call EXCEPT ![w] = done("ok")] /\ disk' = written
    /\ lock' = IF lock = w THEN 0 ELSE lock
    /\ UNCHANGED <<config, writer, prev, ncalls, serve, lastput>>

\* `if self.google_cache:` in close(): raises on a closed shelf, false for
\* None and for an open shelf without entries
CloseOutcome(gc) ==
    IF BoolRaises(gc) THEN "raises" ELSE IF Truthy(gc) THEN "closes" ELSE "skips"

\* GoogleSearchUtility.close(): Shelf.close() writes the cached entries back
\* (when writeback is on), syncs and closes the file; its errors are logged.
CloseCache ==
    LET closes == CloseOutcome(google_cache) = "closes"
        written == IF wb.on THEN wb.cache @@ google_cache.dict ELSE google_cache.dict
    IN
    /\ google_cache' = IF closes THEN [handle |-> "closed", dict |-> written]
                       ELSE google_cache
    /\ disk' = IF closes /\ fault # "sync" THEN written ELSE disk
    /\ wb' = IF closes /\ wb.on THEN NoWriteback ELSE wb

CloseCounted(sv) ==
    [sv EXCEPT !.close_calls = @ + 1,
               !.closes = IF CloseOutcome(google_cache) = "closes" THEN @ + 1 ELSE @,
               !.close_raised = CloseOutcome(google_cache) = "raises"]

AfterCleanup(pc) == IF pc \in {"except", "except_shutdown"} THEN "finally" ELSE "exited"

\* `await server_task` ends: normally, or an exception leaves the try block
ServerStops ==
    /\ serve.pc = "running"
    /\ \E crashed \in BOOLEAN :
          serve' = [serve EXCEPT !.crashed = crashed,
                                 !.pc = IF crashed THEN "except" ELSE "finally"]
    /\ UNCHANGED <<config, google_cache, disk, writer, call, prev, ncalls, wb, lock, lastput>>

\* if not getattr(_executor, '_shutdown', False): search_util.close()
CleanupClose ==
    /\ serve.pc \in {"except", "finally"}
    /\ IF serve.shutdown
       THEN /\ serve' = [serve EXCEPT !.pc = AfterCleanup(serve.pc)]
            /\ UNCHANGED <<google_cache, disk, wb>>
       ELSE /\ CloseCache
            /\ serve' = [CloseCounted(serve) EXCEPT
                            !.pc = IF CloseOutcome(google_cache) = "raises"
                                   THEN AfterCleanup(serve.pc)
                                   ELSE IF serve.pc = "except" THEN "except_shutdown"
                                   ELSE "finally_shutdown"]
    /\ UNCHANGED <<config, writer, call, prev, ncalls, lock, lastput>>

\* _executor.shutdown(wait=False, cancel_futures=True)
CleanupShutdown ==
    /\ serve.pc \in {"except_shutdown", "finally_shutdown"}
    /\ serve' = [serve EXCEPT !.shutdown = TRUE, !.shutdowns = @ + 1,
                              !.pc = AfterCleanup(serve.pc)]
    /\ UNCHANGED <<config, google_cache, disk, writer, call, prev, ncalls, wb, lock, lastput>>

NextServer ==
    \/ \E w \in PoolWorkers :
          \/ Submit(w)
          \/ TryCache(w)
          \/ Fetch(w)
          \/ Persist(w)
          \/ Acquire(w)
          \/ LockTimeout(w)
          \/ Sync(w)
          \/ Except(w)
    \/ ServerStops
    \/ CleanupClose
    \/ CleanupShutdown

InitServer ==
    /\ engine = "server"
    /\ max_retries \in 1 .. MaxPoolRetries
    /\ request_delay = MaxDelay
    /\ limit = Cardinality(PoolWorkers)
    /\ \E s \in PoolStores :
          /\ google_cache = s.cache
          /\ disk = s.cache.dict
          /\ writer = s.writer
          /\ fault = s.fault
    /\ call = [w \in PoolWorkers |-> IdleCall]
    /\ prev = NoPrev
    /\ ncalls = 0
    /\ wb = NoWriteback
    /\ lock = 0
    /\ serve = [NoServe EXCEPT !.pc = "running"]
    /\ lastput = <<>>

SpecServer == InitServer /\ [][NextServer]_vars

-----------------------------------------------------------------------------
(* The engine used as a library: calls of search_google and of close() *)

MaxCloses == 2          \* calls of close()

\* The owner of the engine calls close() between searches.
Close ==
    /\ serve.pc = "off"
    /\ serve.close_calls < MaxCloses
    /\ \A w \in DOMAIN call : call[w].pc \in {"idle", "done", "raised"}
    /\ CloseCache
    /\ serve' = CloseCounted(serve)
    /\ UNCHANGED <<config, writer, call, prev, ncalls, lock, lastput>>

NextLifetime ==
    \/ \E w \in Workers :
          \/ Begin(w)
          \/ TryCache(w)
          \/ Fetch(w)
          \/ Persist(w)
          \/ Save(w)
          \/ Except(w)
    \/ Close

InitLifetime ==
    InitWith(PackageEngines, 0 .. MaxSessionRetries, 0 .. MaxDelay,
             OpenedStores \cup FailingStores, 1)

SpecLifetime == InitLifetime /\ [][NextLifetime]_vars

-----------------------------------------------------------------------------
(* gsearch.py: the standalone copy of the engine *)

MaxStandaloneRetries == 2   \* max_retries ranges over 0..MaxStandaloneRetries

\* cache_key = f"{query}_{include_descriptions}"
StandaloneKey(query, include_descriptions) == query \o "_" \o StrBool(include_descriptions)

StandaloneKeyOf(a) == StandaloneKey(a.query, a.include_descriptions)

\* result.url, result.title, result.description are read without hasattr
Complete(h) == h.url # Absent /\ h.title # Absent /\ h.description # Absent

StandaloneNormalize(hits, include_descriptions) ==
    IF include_descriptions
    THEN [i \in 1 .. Len(hits) |->
            [url |-> hits[i].url, title |-> hits[i].title,
             description |-> hits[i].description]]
    ELSE [i \in 1 .. Len(hits) |-> UrlOnly(hits[i])]

\* The cache file as an earlier run left it: no handle, no entries, or the
\* entry of one earlier search.
StandaloneShelf(handle, entries) ==
    [cache |-> [handle |-> handle,
                dict |-> [k \in {StandaloneKeyOf(e.by) : e \in entries} |->
                             (CHOOSE e \in entries : StandaloneKeyOf(e.by) = k).value]],
     writer |-> [k \in {StandaloneKeyOf(e.by) : e \in entries} |->
                    (CHOOSE e \in entries : StandaloneKeyOf(e.by) = k).by],
     fault |-> "none"]

StandaloneEntries ==
    {[by |-> Triple(a),
      value |-> StandaloneNormalize(<<Hit("a", "ta", "da")>>, a.include_descriptions)] :
        a \in {b \in CallArgs : b.use_cache /\ b.query = "x"}}

StandaloneStores ==
    {StandaloneShelf("None", {}), StandaloneShelf("open", {})}
    \cup {StandaloneShelf("open", {e}) : e \in StandaloneEntries}

StandaloneBegin(w) ==
    /\ call[w].pc \in {"idle", "done", "raised"}
    /\ ncalls < limit
    /\ \E a \in CallArgs :
          call' = [call EXCEPT ![w] =
                      Iterate([IdleCall EXCEPT !.args = a, !.cache_key = StandaloneKeyOf(a),
                                               !.cache0 = google_cache, !.disk0 = disk], 0)]
    /\ prev' = IF call[w].pc = "idle" THEN prev ELSE Summary(call[w])
    /\ ncalls' = ncalls + 1
    /\ UNCHANGED <<config, google_cache, disk, writer, wb, serving>>

\* What `cache_key in self.google_cache` and `self.google_cache[cache_key] = ...`
\* raise: TypeError on None, ValueError on a closed shelf, nothing otherwise.
HandleError(gc) ==
    IF gc.handle = "None" THEN "TypeError"
    ELSE IF gc.handle = "closed" THEN "ValueError" ELSE "ok"

\* if use_cache and cache_key in self.google_cache and attempt == 0
StandaloneTry(w) ==
    LET c == call[w]
        err == HandleError(google_cache)
        hit == InCacheFirstAttempt(c, google_cache)
        served == UseCache(c) /\ err = "ok" /\ fault # "get" /\ hit
        entry == ShelfGet(google_cache, wb, c.cache_key)
    IN
    /\ c.pc = "try"
    /\ call' = [call EXCEPT ![w] =
          IF ~UseCache(c) THEN [c EXCEPT !.pc = "fetch"]
          ELSE IF err # "ok" \/ fault = "get"
          THEN [c EXCEPT !.pc = "except", !.exc = NoResponse,
                   !.trace = Append(@, Ev("contains", c.attempt, "try", 0,
                                          IF err # "ok" THEN err ELSE "error"))]
          ELSE IF hit
          THEN Finish([c EXCEPT
                         !.search_results = entry,
                         !.trace = @ \o <<Ev("contains", c.attempt, "try", 0, "ok"),
                                          Ev("getitem", c.attempt, "try", 0, "ok")>>],
                      entry, "hit")
          ELSE [c EXCEPT !.pc = "fetch",
                   !.trace = Append(@, Ev("contains", c.attempt, "try", 0, "ok"))]]
    /\ wb' = IF served THEN Remember(wb, c.cache_key, entry) ELSE wb
    /\ UNCHANGED <<config, google_cache, disk, writer, prev, ncalls, serving>>

\* google_user_agents.user_agents = [self.ua.random]; search(...); the
\* comprehension (no sleep before the provider call)
StandaloneFetch(w) ==
    LET c == call[w]
        rotated == Append(c.trace, Ev("rotate", c.attempt, "try", 0, "ok"))
    IN
    /\ c.pc = "fetch"
    /\ \/ \E e \in ProviderFailures :
             call' = [call EXCEPT ![w] =
                [c EXCEPT !.pc = "except", !.exc = e,
                          !.trace = Append(rotated,
                               Ev("search", c.attempt, "try", 0, ExcName(e)))]]
       \/ \E r \in Responses(c.args.include_descriptions) :
             call' = [call EXCEPT ![w] =
                IF c.args.include_descriptions /\ \E i \in 1 .. Len(r) : ~Complete(r[i])
                THEN [c EXCEPT !.pc = "except", !.exc = NoResponse, !.hits = r,
                               !.trace = rotated \o
                                   <<Ev("search", c.attempt, "try", 0, "ok"),
                                     Ev("format", c.attempt, "try", 0, "AttributeError")>>]
                ELSE [c EXCEPT !.pc = "persist", !.hits = r,
                               !.search_results =
                                   StandaloneNormalize(r, c.args.include_descriptions),
                               !.trace = Append(rotated,
                                   Ev("search", c.attempt, "try", 0, "ok"))]]
    /\ UNCHANGED <<config, google_cache, disk, writer, prev, ncalls, wb, serving>>

\* self.google_cache[cache_key] = search_results, whatever the handle is
StandalonePersist(w) ==
    LET c == call[w]
        err == HandleError(google_cache)
        stores == err = "ok" /\ fault # "put"
    IN
    /\ c.pc = "persist"
    /\ call' = [call EXCEPT ![w] =
          IF stores
          THEN [c EXCEPT !.pc = "save",
                         !.trace = Append(@, Ev("setitem", c.attempt, "try", 0, "ok"))]
          ELSE [c EXCEPT !.pc = "except", !.exc = NoResponse,
                         !.trace = Append(@, Ev("setitem", c.attempt, "try", 0,
                                                IF err # "ok" THEN err ELSE "error"))]]
    /\ google_cache' = IF stores
                       THEN [google_cache EXCEPT
                                !.dict = (c.cache_key :> c.search_results) @@ @]
                       ELSE google_cache
    /\ wb' = IF stores THEN Remember(wb, c.cache_key, c.search_results) ELSE wb
    /\ writer' = IF stores THEN (c.cache_key :> Triple(c.args)) @@ writer ELSE writer
    /\ lastput' = IF stores THEN (c.cache_key :> c.search_results) @@ lastput ELSE lastput
    /\ UNCHANGED <<config, disk, prev, ncalls, lock, serve>>

NextStandalone ==
    \E w \in Workers :
        \/ StandaloneBegin(w)
        \/ StandaloneTry(w)
        \/ StandaloneFetch(w)
        \/ StandalonePersist(w)
        \/ Save(w)
        \/ Except(w)

InitStandalone ==
    /\ engine = "gsearch"
    /\ max_retries \in 0 .. MaxStandaloneRetries
    /\ request_delay \in 0 .. MaxDelay
    /\ limit = 1
    /\ \E s \in StandaloneStores :
          /\ google_cache = s.cache
          /\ disk = s.cache.dict
          /\ writer = s.writer
          /\ fault = s.fault
    /\ call = [w \in Workers |-> IdleCall]
    /\ prev = NoPrev
    /\ ncalls = 0
    /\ wb = NoWriteback
    /\ lock = 0
    /\ serve = NoServe
    /\ lastput = <<>>

SpecStandalone == InitStandalone /\ [][NextStandalone]_vars

-----------------------------------------------------------------------------
(* A session of searches for one query, on any of the three engines *)

Engines == PackageEngines \cup {"gsearch"}

\* The session asks for "x" with one count; use_cache and include_descriptions vary.
SessionArgs == {a \in CallArgs : a.query = "x" /\ a.num_results = MaxNum}

EngineKeyOf(a) == IF engine = "gsearch" THEN StandaloneKeyOf(a) ELSE KeyOf(a)

\* The cache file of the engine that runs, with lookups, assignments and
\* syncs that do not fail.
SessionStores ==
    IF engine = "gsearch" THEN StandaloneStores
    ELSE {s \in AttemptStores : s.fault = "none"}

\* A caller invokes search_google("x", num_results, use_cache, include_descriptions),
\* once the call before it has ended.
SessionCall(w) ==
    /\ call[w].pc \in {"idle", "done", "raised"}
    /\ ncalls < limit
    /\ \E a \in SessionArgs :
          call' = [call EXCEPT ![w] =
                      Iterate([IdleCall EXCEPT !.args = a, !.cache_key = EngineKeyOf(a),
                                               !.cache0 = google_cache, !.disk0 = disk], 0)]
    /\ prev' = IF call[w].pc = "idle" THEN prev ELSE Summary(call[w])
    /\ ncalls' = ncalls + 1
    /\ UNCHANGED <<config, google_cache, disk, writer, wb, serving>>

NextRevisit ==
    \E w \in Workers :
        \/ SessionCall(w)
        \/ engine \in PackageEngines /\ TryCache(w)
        \/ engine \in PackageEngines /\ Fetch(w)
        \/ engine \in PackageEngines /\ Persist(w)
        \/ engine = "gsearch" /\ StandaloneTry(w)
        \/ engine = "gsearch" /\ StandaloneFetch(w)
        \/ engine = "gsearch" /\ StandalonePersist(w)
        \/ Save(w)
        \/ Except(w)

InitRevisit ==
    /\ engine \in Engines
    /\ max_retries \in 0 .. MaxSessionRetries
    /\ request_delay = MaxDelay
    /\ limit = MaxCalls
    /\ \E s \in SessionStores :
          /\ google_cache = s.cache
          /\ disk = s.cache.dict
          /\ writer = s.writer
          /\ fault = s.fault
    /\ call = [w \in Workers |-> IdleCall]
    /\ prev = NoPrev
    /\ ncalls = 0
    /\ wb = NoWriteback
    /\ lock = 0
    /\ serve = NoServe
    /\ lastput = <<>>

SpecRevisit == InitRevisit /\ [][NextRevisit]_vars

-----------------------------------------------------------------------------
(* Properties *)

IsSearch(e) == e.ev = "search"

IsBackoff(e) == e.ev = "backoff"

IsStoreOp(e) == e.ev \in {"contains", "getitem", "setitem", "sync"}

IsHandlerStep(e) == e.ev = "search" \/ e.in = "except"

Searches(c) == SelectSeq(c.trace, IsSearch)

Backoffs(c) == SelectSeq(c.trace, IsBackoff)

BackoffDelays(c) == [i \in 1 .. Len(Backoffs(c)) |-> Backoffs(c)[i].val]

Events(c) == {c.trace[i] : i \in 1 .. Len(c.trace)}

Ended(c) == c.pc \in {"done", "raised"}

\* The first k records of s, in order.
FirstRecords(s, k) == [i \in 1 .. Max(0, Min(k, Len(s))) |-> s[i]]

\* C1: two consecutive calls with the same (query, num_results,
\* include_descriptions) and use_cache=true on a store that opened (whatever
\* it held, max_retries >= 1), the first of which obtained its records: the
\* second makes no provider call and returns the same sequence.
C1_CacheDeterminism ==
    \A w \in Workers :
        LET c == call[w] IN
        ( /\ engine \in PackageEngines
          /\ prev.valid /\ c.pc # "idle"
          /\ Triple(c.args) = Triple(prev.args)
          /\ c.args.use_cache /\ prev.args.use_cache
          /\ prev.how \in {"hit", "fetched"}
          /\ max_retries >= 1
          /\ google_cache.handle = "open" /\ fault = "none" )
        => /\ Len(Searches(c)) = 0
           /\ c.pc = "done" => c.ret = prev.ret

\* C2: a call reads only an entry that was stored by a call with the same
\* query, include_descriptions and num_results (the key is injective).
C2_KeyIsolation ==
    \A w \in Workers :
        LET c == call[w] IN
        /\ (engine \in PackageEngines /\ c.pc = "try" /\ c.attempt = 0)
           => \A b \in CallArgs : KeyOf(b) = c.cache_key => Triple(b) = Triple(c.args)
        /\ (engine \in PackageEngines /\ c.how = "hit")
           => /\ c.cache_key \in DOMAIN writer
              /\ writer[c.cache_key] = Triple(c.args)

\* reached: the store holds the entry of a call that differs from this one
\* only in num_results, the query contains '_' and 'True', and this call,
\* asked to use the cache, has gone to the provider
C2_Witness ==
    \E w \in Workers :
        LET c == call[w] IN
        /\ c.pc = "persist" /\ c.args.use_cache /\ c.args.query = "x_True_1"
        /\ \E k \in DOMAIN writer :
              /\ writer[k].query = c.args.query
              /\ writer[k].include_descriptions = c.args.include_descriptions
              /\ writer[k].num_results # c.args.num_results

\* C3: a call makes at most max_retries provider calls, and a call in which
\* every attempt failed ends by returning the empty sequence after exactly
\* max_retries failed attempts.
C3_RetryBound ==
    \A w \in Workers :
        LET c == call[w] IN
        /\ Len(Searches(c)) <= max_retries
        /\ (Ended(c) /\ c.how \notin {"hit", "fetched"})
           => /\ c.pc = "done" /\ c.ret = <<>>
              /\ c.failures = max_retries

\* C4: search_google never raises to its caller.
C4_NeverRaises == \A w \in Workers : call[w].pc # "raised"

\* C5: for every num_results, the returned sequence is the first
\* min(available, num_results) records, and has exactly that length.
C5_Truncation ==
    \A w \in Workers :
        LET c == call[w]
            m == Min(Len(c.search_results), c.args.num_results)
        IN (c.pc = "done" /\ c.how \in {"hit", "fetched"})
           => c.ret = FirstRecords(c.search_results, m) /\ Len(c.ret) = m

\* C5 as amended: the same for every num_results >= 0.
C5_TruncationNonNegative ==
    \A w \in Workers :
        LET c == call[w]
            m == Min(Len(c.search_results), c.args.num_results)
        IN (c.pc = "done" /\ c.how \in {"hit", "fetched"} /\ c.args.num_results >= 0)
           => c.ret = FirstRecords(c.search_results, m) /\ Len(c.ret) = m

\* reached: a cache hit on an entry of two records, returned cut to one
C5_Witness ==
    \E w \in Workers :
        LET c == call[w] IN
        /\ c.pc = "done" /\ c.how = "hit" /\ c.args.num_results = 1
        /\ Len(c.search_results) = 2 /\ c.ret = <<c.search_results[1]>>

\* The call's effects that are provider calls or steps of the handler,
\* in order.
HandlerSteps(c) == SelectSeq(c.trace, IsHandlerStep)

\* Attempts 0..k-1 failed at the provider with the rate-limit signal and
\* attempt k succeeded, on a store that does not fail.
RateLimitedThenOk(c) ==
    LET ss == Searches(c) IN
    /\ fault = "none"
    /\ Len(ss) = c.attempt + 1
    /\ ss[Len(ss)].res = "ok"
    /\ \A i \in 1 .. Len(ss) - 1 : ss[i].res = "RateLimited"

\* C6: with a store that failed to open (None), no call reads or writes a
\* store or is served from one; whenever a provider call succeeds, on
\* attempt k, it was the call's (k+1)-th provider call and the call returns
\* that response's records cut to num_results, and does not raise.
C6_StoreDegradation ==
    \A w \in Workers :
        LET c == call[w] IN
        (engine \in PackageEngines /\ google_cache.handle = "None" /\ c.pc # "idle")
        => /\ \A e \in Events(c) : ~IsStoreOp(e)
           /\ google_cache = c.cache0 /\ disk = c.disk0
           /\ c.how # "hit"
           /\ (\E e \in Events(c) : IsSearch(e) /\ e.res = "ok")
              => /\ Len(Searches(c)) = c.attempt + 1
                 /\ c.pc \in {"persist", "done"}
                 /\ c.pc = "done"
                    => /\ c.how = "fetched"
                       /\ c.ret = Slice(Normalize(c.hits, c.args.include_descriptions),
                                        c.args.num_results)

\* reached: no store, the provider failed on attempt 0 and answered two
\* records on attempt 1; the call returned the first after 2 provider calls
C6_Witness ==
    \E w \in Workers :
        LET c == call[w] IN
        /\ google_cache.handle = "None" /\ c.pc = "done" /\ c.how = "fetched"
        /\ c.attempt = 1 /\ Len(Searches(c)) = 2
        /\ Len(c.hits) = 2 /\ Len(c.ret) = 1

\* C7: whenever the store holds an entry for the key and use_cache is set,
\* for every max_retries, the call returns the entry cut to num_results
\* with no provider call, sleep or rotation, and leaves the store as it was.
C7_CacheHit ==
    \A w \in Workers :
        LET c == call[w] IN
        ( /\ c.pc # "idle" /\ c.args.use_cache /\ fault = "none"
          /\ c.cache0.handle = "open" /\ c.cache_key \in DOMAIN c.cache0.dict )
        => /\ \A e \in Events(c) : e.ev \in {"contains", "getitem"}
           /\ google_cache = c.cache0 /\ disk = c.disk0
           /\ c.pc = "done"
              => /\ c.how = "hit"
                 /\ c.ret = Slice(c.cache0.dict[c.cache_key], c.args.num_results)

\* C7 as amended: the same for every max_retries >= 1.
C7_CacheHitWithAttempts ==
    \A w \in Workers :
        LET c == call[w] IN
        ( /\ c.pc # "idle" /\ c.args.use_cache /\ fault = "none"
          /\ c.cache0.handle = "open" /\ c.cache_key \in DOMAIN c.cache0.dict
          /\ max_retries >= 1 )
        => /\ \A e \in Events(c) : e.ev \in {"contains", "getitem"}
           /\ google_cache = c.cache0 /\ disk = c.disk0
           /\ c.pc = "done"
              => /\ c.how = "hit"
                 /\ c.ret = Slice(c.cache0.dict[c.cache_key], c.args.num_results)

\* reached: max_retries = 3, a stored empty entry answered the call at once
C7_Witness ==
    \E w \in Workers :
        LET c == call[w] IN
        /\ max_retries = 3 /\ c.pc = "done" /\ c.how = "hit" /\ c.args.use_cache
        /\ c.cache_key \in DOMAIN c.cache0.dict
        /\ c.cache0.dict[c.cache_key] = <<>> /\ c.ret = <<>>
        /\ Len(c.trace) = 2 /\ google_cache = c.cache0

\* C8: a call that returns the records of a successful provider call, on a
\* store that opened (whatever it holds) and does not fail, has stored the
\* whole normalized list under its key and synced it: put, then flushed.
C8_PersistOnSuccess ==
    \A w \in Workers :
        LET c == call[w] IN
        ( /\ c.pc = "done" /\ c.how = "fetched"
          /\ google_cache.handle = "open" /\ fault = "none" )
        => /\ c.cache_key \in DOMAIN google_cache.dict
           /\ google_cache.dict[c.cache_key] = c.search_results
           /\ c.cache_key \in DOMAIN disk
           /\ disk[c.cache_key] = c.search_results
           /\ SelectSeq(c.trace, IsStoreOp)[Len(SelectSeq(c.trace, IsStoreOp))].ev = "sync"

BackoffIsExponential(c) ==
    \A e \in Events(c) : IsBackoff(e) => e.val = request_delay * (2 ^ e.at)

\* The delays of the backoff sleeps of consecutive attempts strictly increase.
BackoffIncreases(c) ==
    \A i \in 1 .. Len(Backoffs(c)) - 1 :
        Backoffs(c)[i + 1].at = Backoffs(c)[i].at + 1
        => Backoffs(c)[i].val < Backoffs(c)[i + 1].val

\* C10: for every request_delay, the backoff delay is a function of
\* (request_delay, attempt) alone, request_delay * 2^attempt, and strictly
\* increases over consecutive rate-limited attempts.
C10_BackoffMonotone ==
    \A w \in Workers : BackoffIsExponential(call[w]) /\ BackoffIncreases(call[w])

\* C10 as amended: the same for every request_delay >= 1.
C10_BackoffMonotonePositive ==
    \A w \in Workers :
        request_delay >= 1 => BackoffIsExponential(call[w]) /\ BackoffIncreases(call[w])

\* reached: request_delay = 1 and three rate-limited attempts in a row,
\* with backoffs of 1, 2 and 4
C10_Witness ==
    \E w \in Workers :
        /\ request_delay = 1
        /\ BackoffDelays(call[w]) = <<1, 2, 4>>

HasPut(c) == SelectSeq(c.trace, LAMBDA e : e.ev = "setitem" /\ e.res = "ok") # <<>>

\* Two searches of the pool for one key have both fetched from the provider
\* and returned, on a store that opened and does not fail.
BothFetched(u, v) ==
    /\ u # v
    /\ call[u].pc = "done" /\ call[v].pc = "done"
    /\ call[u].how = "fetched" /\ call[v].how = "fetched"
    /\ call[u].cache_key = call[v].cache_key
    /\ google_cache.handle = "open" /\ fault = "none"

\* C11: two searches for one key on pool workers that both missed the cache
\* each call the provider and each put their result, and once both have
\* finished the entry for the key is the whole result of the put that
\* happened last.
C11_SameKeyRace ==
    \A u, v \in DOMAIN call :
        BothFetched(u, v)
        => /\ Len(Searches(call[u])) >= 1 /\ Len(Searches(call[v])) >= 1
           /\ HasPut(call[u]) /\ HasPut(call[v])
           /\ call[u].cache_key \in DOMAIN google_cache.dict
           /\ call[u].cache_key \in DOMAIN lastput
           /\ ShelfGet(google_cache, wb, call[u].cache_key) = lastput[call[u].cache_key]

\* The call's last effect is a flush that did not go through.
FlushFailed(c) ==
    /\ Len(c.trace) > 0
    /\ c.trace[Len(c.trace)].ev = "sync"
    /\ c.trace[Len(c.trace)].res # "ok"

C13_ShutdownOnce ==
    (serve.pc = "exited" /\ google_cache.handle # "None")
    => /\ serve.closes = 1 /\ google_cache.handle = "closed"
       /\ serve.shutdowns = 1 /\ serve.shutdown

\* C14: whatever state the store is in (failed to open, open without
\* entries, open with entries, already closed), a call of close() leaves no
\* handle open and does not raise.
C14_CloseContract ==
    (engine \in PackageEngines /\ serve.close_calls >= 1)
    => /\ ~serve.close_raised
       /\ google_cache.handle # "open"

\* Attempt a of the call has ended: a later attempt has begun, or the call
\* is past the cache test and the provider call of its current attempt.
AttemptEnded(c, a) ==
    \/ a < c.attempt
    \/ a = c.attempt /\ c.pc \in {"persist", "save", "sync", "except", "done", "raised"}
                     /\ max_retries >= 1

WentToProvider(c, a) == SelectSeq(c.trace, LAMBDA e : IsSearch(e) /\ e.at = a) # <<>>

\* C15: a cached entry is returned on attempt 0 only, and every attempt after
\* attempt 0 (which missed or failed) goes to the provider.
C15_CacheOnlyFirstAttempt ==
    \A w \in DOMAIN call :
        LET c == call[w] IN
        (engine \in PackageEngines /\ request_delay >= 0)
        => /\ c.how = "hit" => c.attempt = 0
           /\ \A a \in 1 .. c.attempt : AttemptEnded(c, a) => WentToProvider(c, a)

\* The i-th effect of the call is a provider call that failed without the
\* rate-limit signal, and the handler has dealt with it.
HandledFailure(c, i) ==
    /\ c.trace[i].ev = "search" /\ c.trace[i].res = "HttpError"
    /\ (i < Len(c.trace) \/ c.pc # "except")

\* The two effects after the i-th are a rotation and a sleep of request_delay.
RotatesAndSleepsFlat(c, i) ==
    /\ Len(c.trace) >= i + 2
    /\ c.trace[i + 1] = Ev("rotate", c.trace[i].at, "except", 0, "ok")
    /\ c.trace[i + 2] = Ev("delay", c.trace[i].at, "except", request_delay,
                           SleepRes(request_delay))

InTry(c, a) ==
    SelectSeq(c.trace, LAMBDA e : /\ e.at = a /\ e.in = "try"
                                  /\ e.ev \in {"rotate", "throttle", "search"})

\* C17: every provider call is preceded, in this order, by exactly one
\* identity rotation and exactly one throttle sleep of request_delay plus a
\* jitter in [0, 2) that returned, and an attempt makes at most one provider
\* call; a call served from the cache rotates, sleeps and calls the provider
\* not at all.
C17_RotateThrottleSearch ==
    \A w \in DOMAIN call :
        LET c == call[w] IN
        engine \in PackageEngines
        => /\ \A a \in 0 .. c.attempt :
                 LET t == InTry(c, a) IN
                 /\ Len(t) <= 3
                 /\ Len(t) >= 1 => t[1] = Ev("rotate", a, "try", 0, "ok")
                 /\ Len(t) >= 2 => t[2].ev = "throttle" /\ t[2].val = request_delay
                 /\ Len(t) = 3 => t[2].res = "ok" /\ t[3].ev = "search"
           /\ \A j \in Jitter : 0 <= j /\ j < 2
           /\ c.how = "hit" => \A e \in Events(c) : e.ev \in {"contains", "getitem"}

\* reached: the provider failed on attempt 0 and answered on attempt 1, and
\* each of the two provider calls came after its own rotation and throttle
C17_Witness ==
    \E w \in DOMAIN call :
        LET c == call[w] IN
        /\ engine \in PackageEngines /\ c.pc = "done" /\ c.how = "fetched"
        /\ c.attempt = 1 /\ Len(Searches(c)) = 2
        /\ Len(SelectSeq(c.trace, LAMBDA e : e.ev = "rotate" /\ e.in = "try")) = 2
        /\ Len(SelectSeq(c.trace, LAMBDA e : e.ev = "throttle")) = 2

\* The provider's hits that have a URL, in the provider's order.
WithUrl(hits) == SelectSeq(hits, LAMBDA h : h.url # Absent)

\* The record is the hit, with the placeholders where the hit has no value.
RecordOf(r, h, include_descriptions) ==
    /\ r.url = h.url /\ r.url # Absent
    /\ include_descriptions
       => /\ r.title = (IF h.title = Absent THEN "No title" ELSE h.title)
          /\ r.description = (IF h.description = Absent THEN "No description"
                              ELSE h.description)

\* C18: after a provider call that answered, the records are the hits that
\* have a URL, in provider order, each with its url and, with
\* include_descriptions, its title and description or the placeholders; they
\* are what is stored and, cut to num_results, what is returned; a hit
\* without a URL does not make the attempt fail.
C18_Normalization ==
    \A w \in DOMAIN call :
        LET c == call[w]
            kept == WithUrl(c.hits)
        IN
        (engine \in PackageEngines /\ WentToProvider(c, c.attempt)
            /\ Searches(c)[Len(Searches(c))].res = "ok")
        => /\ Len(c.search_results) = Len(kept)
           /\ \A i \in 1 .. Len(kept) :
                 RecordOf(c.search_results[i], kept[i], c.args.include_descriptions)
           /\ HasPut(c) => lastput[c.cache_key] = c.search_results
           /\ fault = "none" => c.pc \in {"persist", "save", "sync", "done"}
           /\ (c.pc = "done" /\ c.how = "fetched")
              => /\ c.ret = Slice(c.search_results, c.args.num_results)
                 /\ \A i \in 1 .. Len(c.ret) : c.ret[i].url # Absent

\* reached: three hits, the second without a URL, the first without a
\* description, the third without a title: two records are stored, with the
\* placeholders, and the first is returned
C18_Witness ==
    \E w \in DOMAIN call :
        LET c == call[w] IN
        /\ engine \in PackageEngines /\ c.pc = "done" /\ c.how = "fetched"
        /\ Len(c.hits) = 3 /\ c.hits[2].url = Absent
        /\ HasPut(c) /\ Len(lastput[c.cache_key]) = 2
        /\ lastput[c.cache_key][1].description = "No description"
        /\ lastput[c.cache_key][2].title = "No title"
        /\ c.args.num_results = 1 /\ c.ret = <<lastput[c.cache_key][1]>>

\* C19: in gsearch.py a call is answered from the cache only with an entry
\* that a call with the same query, include_descriptions and num_results
\* stored.
C19_StandaloneKeyIsolation ==
    \A w \in DOMAIN call :
        LET c == call[w] IN
        (engine = "gsearch" /\ c.how = "hit")
        => /\ c.cache_key \in DOMAIN writer
           /\ writer[c.cache_key] = Triple(c.args)

\* Every provider call the call has made was answered.
ProviderSucceeds(c) == \A e \in Events(c) : IsSearch(e) => e.res = "ok"

\* C20: in gsearch.py, with no store handle (None) and a provider that
\* answers, a call ends by returning the provider's records, for
\* use_cache=true and for use_cache=false.
C20_StandaloneDegradation ==
    \A w \in DOMAIN call :
        LET c == call[w] IN
        ( /\ engine = "gsearch" /\ google_cache.handle = "None"
          /\ max_retries >= 1 /\ Ended(c) /\ ProviderSucceeds(c) )
        => /\ c.pc = "done" /\ c.how = "fetched"
           /\ c.ret = Slice(c.search_results, c.args.num_results)

\* The list comprehension of the engine that runs.
EngineNormalize(hits, include_descriptions) ==
    IF engine = "gsearch" THEN StandaloneNormalize(hits, include_descriptions)
    ELSE Normalize(hits, include_descriptions)

\* The lookups the call made in the store.
StoreReads(c) == SelectSeq(c.trace, LAMBDA e : e.ev \in {"bool", "contains", "getitem"})

\* The call is the use_cache=true search that follows a use_cache=false
\* search for the same key, which found an entry under the key and ended
\* with the provider's records; the call is past its cache test.
FollowsBypass(c) ==
    /\ c.pc \notin {"idle", "try"} /\ c.args.use_cache
    /\ prev.valid /\ ~prev.args.use_cache /\ prev.how = "fetched"
    /\ prev.older # <<>> /\ prev.key = c.cache_key

\* C21: a call with use_cache=false never looks anything up in the store and
\* is never served from it; the records it returns are the normalized
\* response of its own last provider call, cut to num_results, and where the
\* key had an entry the entry is now those records; the use_cache=true call
\* for the same key that follows makes no provider call and returns those
\* records, cut to its num_results.
C21_CacheBypass ==
    \A w \in Workers :
        LET c == call[w] IN
        /\ (c.pc # "idle" /\ ~c.args.use_cache)
           => /\ StoreReads(c) = <<>>
              /\ c.how # "hit"
              /\ (c.pc = "done" /\ c.how = "fetched")
                 => /\ Searches(c) # <<>>
                    /\ Searches(c)[Len(Searches(c))].res = "ok"
                    /\ c.ret = Slice(EngineNormalize(c.hits, c.args.include_descriptions),
                                     c.args.num_results)
                    /\ c.cache_key \in DOMAIN c.cache0.dict
                       => google_cache.dict[c.cache_key] = c.search_results
        /\ FollowsBypass(c)
           => /\ Searches(c) = <<>>
              /\ c.pc = "done" /\ c.how = "hit"
              /\ c.ret = Slice(lastput[c.cache_key], c.args.num_results)
              /\ prev.ret = Slice(lastput[c.cache_key], prev.args.num_results)

\* reached: the key held an entry, a use_cache=false search replaced it with
\* a different, non-empty answer of the provider, and the use_cache=true
\* search that followed returned that answer and not the older entry
C21_Witness ==
    \E w \in Workers :
        LET c == call[w] IN
        /\ FollowsBypass(c) /\ c.pc = "done" /\ c.how = "hit"
        /\ prev.older[1] # lastput[c.cache_key]
        /\ c.ret # <<>> /\ c.ret = prev.ret
        /\ c.ret # Slice(prev.older[1], c.args.num_results)

\* The call's key held the empty entry of an earlier provider response when
\* the call, with use_cache=true, began; the call is past its cache test.
FindsEmptyEntry(c) ==
    /\ c.pc \notin {"idle", "try"} /\ c.args.use_cache
    /\ c.cache_key \in DOMAIN c.cache0.dict /\ c.cache0.dict[c.cache_key] = <<>>
    /\ c.cache_key \in DOMAIN lastput /\ lastput[c.cache_key] = <<>>

\* C22: on a store that is open, holds at least one entry and does not fail,
\* a provider response with zero records is put and flushed as an empty
\* entry under the key; every later use_cache=true search that finds the
\* empty entry under its key is a cache hit: no provider call, the empty
\* sequence, the store as it was.
C22_ZeroResultCached ==
    \A w \in Workers :
        LET c == call[w] IN
        /\ ( /\ c.pc = "done" /\ c.how = "fetched" /\ c.search_results = <<>>
             /\ c.cache0.handle = "open" /\ DOMAIN c.cache0.dict # {}
             /\ fault = "none" )
           => /\ c.cache_key \in DOMAIN google_cache.dict
              /\ google_cache.dict[c.cache_key] = <<>>
              /\ c.cache_key \in DOMAIN disk /\ disk[c.cache_key] = <<>>
              /\ c.ret = <<>>
        /\ FindsEmptyEntry(c)
           => /\ Searches(c) = <<>>
              /\ c.pc = "done" /\ c.how = "hit" /\ c.ret = <<>>
              /\ google_cache = c.cache0 /\ disk = c.disk0

\* reached: in a package engine the store held an entry under another key,
\* a use_cache=true search missed, got zero records from the provider and
\* stored them; the same search, repeated, is a hit that returns nothing
C22_Witness ==
    \E w \in Workers :
        LET c == call[w] IN
        /\ engine \in PackageEngines
        /\ FindsEmptyEntry(c) /\ c.pc = "done" /\ c.how = "hit" /\ c.ret = <<>>
        /\ prev.valid /\ prev.args = c.args /\ prev.how = "fetched"
        /\ prev.searches = 1 /\ prev.older = <<>>
        /\ Cardinality(DOMAIN google_cache.dict) = 2

\* The i-th effect of the call is a put or a flush that raised.
WriteFailed(c, i) == c.trace[i].ev \in {"setitem", "sync"} /\ c.trace[i].res # "ok"

\* C23: after a put or a flush that raised (both come after a provider call
\* that succeeded) the call makes no further provider call, and it ends by
\* returning that provider call's records, cut to num_results.
C23_WriteFailureKeepsResults ==
    \A w \in DOMAIN call :
        LET c == call[w] IN
        engine \in PackageEngines
        => \A i \in 1 .. Len(c.trace) :
              WriteFailed(c, i)
              => /\ \A k \in i + 1 .. Len(c.trace) : ~IsSearch(c.trace[k])
                 /\ Ended(c) => /\ c.pc = "done" /\ c.how = "fetched"
                                /\ c.ret = Slice(c.search_results, c.args.num_results)

\* The operations of the call on the shelf that found the shelf closed.
OnClosedStore(c) ==
    SelectSeq(c.trace, LAMBDA e : /\ e.ev \in {"bool", "contains", "getitem", "setitem", "sync"}
                                  /\ e.res = "ValueError")

\* C24: once serve()'s cleanup has closed the cache handle, no pool worker
\* that is still running search_google operates on the store: no search has
\* tested, read, written or synced the closed shelf.
C24_NoUseAfterClose ==
    \A w \in DOMAIN call :
        google_cache.handle = "closed" => OnClosedStore(call[w]) = <<>>

\* The puts and flushes of the call during attempt a.
WritesIn(c, a) ==
    SelectSeq(c.trace, LAMBDA e : e.ev \in {"setitem", "sync"} /\ e.at = a)

\* The provider calls of the call that failed.
FailedSearches(c) == SelectSeq(c.trace, LAMBDA e : IsSearch(e) /\ e.res # "ok")

\* The call returned after max_retries attempts that all failed at the provider.
Exhausted(c) ==
    /\ c.pc = "done" /\ c.how = "exhausted"
    /\ Len(FailedSearches(c)) = max_retries

\* C25: an attempt that failed at the provider puts nothing and flushes
\* nothing, and a search in which every attempt failed at the provider
\* leaves the shelf and the file with the entries it found, none under its
\* key that was not there.
C25_ExhaustionLeavesStore ==
    \A w \in DOMAIN call :
        LET c == call[w]
            failed == FailedSearches(c)
        IN
        engine \in PackageEngines
        => /\ \A i \in 1 .. Len(failed) : WritesIn(c, failed[i].at) = <<>>
           /\ Exhausted(c)
              => /\ google_cache = c.cache0 /\ disk = c.disk0
                 /\ \A a \in 0 .. max_retries - 1 : WritesIn(c, a) = <<>>

\* reached: on an open shelf with an entry under another key, a search
\* missed the cache and failed at the provider on each of two attempts, once
\* rate-limited and once otherwise: it returned nothing and stored nothing
C25_Witness ==
    \E w \in DOMAIN call :
        LET c == call[w] IN
        /\ engine \in PackageEngines /\ max_retries = 2 /\ Exhausted(c)
        /\ c.args.use_cache /\ fault = "none"
        /\ google_cache.handle = "open" /\ DOMAIN google_cache.dict # {}
        /\ c.cache_key \notin DOMAIN google_cache.dict
        /\ FailedSearches(c)[1].res = "RateLimited"
        /\ FailedSearches(c)[2].res = "HttpError"
        /\ c.ret = <<>>

\* The i-th effect of the call is the provider call of the last attempt,
\* max_retries - 1, it failed with the rate-limit signal, and the handler
\* has dealt with it.
RateLimitedOnLast(c, i) ==
    /\ IsSearch(c.trace[i]) /\ c.trace[i].res = "RateLimited"
    /\ c.trace[i].at = max_retries - 1
    /\ (i < Len(c.trace) \/ c.pc # "except")

\* C26: in both package engines, after a rate-limit failure on attempt
\* max_retries - 1 the call sleeps request_delay * 2^(max_retries - 1), the
\* sleep returns, and the call returns the empty sequence: the sleep is its
\* last effect, with no provider call after it.
C26_FinalRateLimitSleeps ==
    \A w \in DOMAIN call :
        LET c == call[w] IN
        engine \in PackageEngines
        => \A i \in 1 .. Len(c.trace) :
              RateLimitedOnLast(c, i)
              => /\ Len(c.trace) = i + 1
                 /\ c.trace[i + 1] = Ev("backoff", max_retries - 1, "except",
                                        request_delay * (2 ^ (max_retries - 1)), "ok")
                 /\ c.pc = "done" /\ c.how = "exhausted" /\ c.ret = <<>>

====
